---------------------------- MODULE Spec2Model ----------------------------
(***************************************************************************)
(* RAG chatbot on Tunisian archaeological sites: the query cycle of        *)
(* RAGSystem (rag.py) against a vector-index collection that the ingestion *)
(* run of DocumentIngester (ingest.py) deletes, recreates and fills.       *)
(*                                                                         *)
(* Texts are sequences of one-character strings.  Distances and            *)
(* similarities are integers counted in ticks of 1/6000, so that           *)
(* 1 - distance/2 is exact for an even number of distance ticks and a      *)
(* rounding to 3 decimals is a rounding to a multiple of 6 ticks.          *)
(***************************************************************************)
EXTENDS Integers, Sequences, FiniteSets, TLC

None == "None"

(***************************************************************************)
(* Texts                                                                   *)
(***************************************************************************)
UpperLetters ==
  <<"A", "B", "C", "D", "E", "F", "G", "H", "I", "J", "K", "L", "M",
    "N", "O", "P", "Q", "R", "S", "T", "U", "V", "W", "X", "Y", "Z", "É">>

LowerLetters ==
  <<"a", "b", "c", "d", "e", "f", "g", "h", "i", "j", "k", "l", "m",
    "n", "o", "p", "q", "r", "s", "t", "u", "v", "w", "x", "y", "z", "é">>

\* The characters str.strip() removes.
Whitespace == {" ", "\t", "\n"}

\* The characters the regular expression class \w matches in a lowercased text.
WordChars ==
  {LowerLetters[i] : i \in 1..Len(LowerLetters)}
    \cup {"0", "1", "2", "3", "4", "5", "6", "7", "8", "9", "_"}
    \cup {"è", "ê", "à", "â", "ç", "ï", "î", "ô", "ù", "û"}

lower_char(c) ==
  IF \E i \in 1..Len(UpperLetters) : UpperLetters[i] = c
  THEN LowerLetters[CHOOSE i \in 1..Len(UpperLetters) : UpperLetters[i] = c]
  ELSE c

\* str.lower()
lower(s) == [i \in 1..Len(s) |-> lower_char(s[i])]

\* str.strip()
strip(s) ==
  LET inked == {i \in 1..Len(s) : s[i] \notin Whitespace}
  IN  IF inked = {} THEN <<>>
      ELSE SubSeq(s, CHOOSE i \in inked : \A j \in inked : i <= j,
                     CHOOSE i \in inked : \A j \in inked : j <= i)

\* str.startswith(prefix)
startswith(s, prefix) ==
  Len(prefix) <= Len(s) /\ SubSeq(s, 1, Len(prefix)) = prefix

\* k in s, for texts
contains(s, k) ==
  \E i \in 1..(Len(s) - Len(k) + 1) : SubSeq(s, i, i + Len(k) - 1) = k

\* The stem anywhere, inside a word too.
search_kerk_anywhere(q) ==
  \E i \in 1..(Len(q) - 3) : SubSeq(q, i, i + 3) = <<"k", "e", "r", "k">>

\* re.search(r"\bkerk\w*", q): the stem at the start of a word; \w* matches
\* any suffix, the empty one included.
search_kerk(q) ==
  \E i \in 1..(Len(q) - 3) :
    /\ SubSeq(q, i, i + 3) = <<"k", "e", "r", "k">>
    /\ (i = 1 \/ q[i - 1] \notin WordChars)

\* The greeting phrases, in list order.
greetings ==
  <<
    <<"h", "i">>,
    <<"h", "e", "l", "l", "o">>,
    <<"s", "a", "l", "u", "t">>,
    <<"b", "o", "n", "j", "o", "u", "r">>,
    <<"b", "o", "n", "s", "o", "i", "r">>,
    <<"h", "e", "y">>,
    <<"c", "o", "u", "c", "o", "u">>,
    <<"y", "o">>,
    <<"g", "o", "o", "d", " ", "m", "o", "r", "n", "i", "n", "g">>,
    <<"g", "o", "o", "d", " ", "e", "v", "e", "n", "i", "n", "g">>
  >>

\* The domain keywords, in list order.
keywords ==
  <<
    <<"t", "u", "n", "i", "s", "i", "e">>,
    <<"t", "u", "n", "i", "s", "i", "e", "n">>,
    <<"t", "u", "n", "i", "s", "i", "e", "n", "n", "e">>,
    <<"s", "i", "t", "e", " ", "a", "r", "c", "h", "é", "o", "l", "o", "g", "i", "q", "u", "e">>,
    <<"s", "i", "t", "e", "s", " ", "a", "r", "c", "h", "é", "o", "l", "o", "g", "i", "q", "u", "e", "s">>,
    <<"a", "r", "c", "h", "é", "o", "l", "o", "g", "i", "e">>,
    <<"p", "a", "t", "r", "i", "m", "o", "i", "n", "e">>,
    <<"r", "u", "i", "n", "e", "s">>,
    <<"a", "n", "t", "i", "q", "u", "e">>,
    <<"r", "o", "m", "a", "i", "n">>,
    <<"p", "u", "n", "i", "q", "u", "e">>,
    <<"n", "u", "m", "i", "d", "e">>,
    <<"b", "y", "z", "a", "n", "t", "i", "n">>,
    <<"a", "m", "p", "h", "i", "t", "h", "é", "â", "t", "r", "e">>,
    <<"t", "h", "é", "â", "t", "r", "e">>,
    <<"f", "o", "r", "u", "m">>,
    <<"t", "h", "e", "r", "m", "e", "s">>,
    <<"t", "e", "m", "p", "l", "e">>,
    <<"m", "o", "s", "a", "ï", "q", "u", "e">>,
    <<"b", "a", "s", "i", "l", "i", "q", "u", "e">>,
    <<"c", "a", "p", "i", "t", "o", "l", "e">>,
    <<"c", "a", "r", "t", "h", "a", "g", "e">>,
    <<"d", "o", "u", "g", "g", "a">>,
    <<"e", "l", " ", "j", "e", "m">>,
    <<"e", "l", " ", "d", "j", "e", "m">>,
    <<"s", "b", "e", "i", "t", "l", "a">>,
    <<"s", "b", "e", "ï", "t", "l", "a">>,
    <<"k", "e", "r", "k", "o", "u", "a", "n", "e">>,
    <<"b", "u", "l", "l", "a", " ", "r", "e", "g", "i", "a">>,
    <<"u", "t", "h", "i", "n", "a">>,
    <<"m", "a", "k", "t", "a", "r">>,
    <<"t", "h", "u", "b", "u", "r", "b", "o">>,
    <<"c", "h", "e", "m", "t", "o", "u">>,
    <<"o", "u", "d", "h", "n", "a">>
  >>

\* The questions put to the system.
Questions ==
  {
    <<"b", "o", "n", "j", "o", "u", "r">>,
    <<"B", "o", "n", "j", "o", "u", "r", ",", " ", "p", "a", "r", "l", "e", "-", "m", "o", "i", " ", "d", "e", " ", "C", "a", "r", "t", "h", "a", "g", "e">>,
    <<"b", "o", "n", "j", "o", "u", "r", " ", "c", "a", "r", "t", "h", "a", "g", "e">>,
    <<" ", " ", "H", "i", " ", "\n">>,
    <<"h", "e", "l", "l", "o">>,
    <<"j", "'", "a", "i", "m", "e", " ", "c", "a", "r", "t", "h", "a", "g", "e">>,
    <<"L", "e", " ", "t", "h", "é", "â", "t", "r", "e", " ", "d", "e", " ", "D", "o", "u", "g", "g", "a", " ", "?">>,
    <<"h", "i", "p", "p", "o", "d", "r", "o", "m", "e", " ", "r", "o", "m", "a", "i", "n">>,
    <<"K", "e", "r", "k", "u", "a", "n", " ", "?">>,
    <<"q", "u", "e", "l", "l", "e", " ", "e", "s", "t", " ", "l", "a", " ", "r", "e", "c", "e", "t", "t", "e", " ", "d", "u", " ", "c", "o", "u", "s", "c", "o", "u", "s">>,
    <<"y", "o", "g", "a">>,
    <<"s", "k", "e", "r", "k">>,
    <<"b", "o", "n", "j", "o", "u", "r", "!">>,
    <<>>,
    <<" ", "\t">>
  }


\* The three classes is_in_scope returns: "greeting", True, False.
Greeting == "greeting"
InDomain == "True"
OutOfDomain == "False"

is_greeting(q) ==
  \/ \E g \in 1..Len(greetings) : q = greetings[g]
  \/ \E g \in 1..Len(greetings) :
       \/ startswith(q, greetings[g] \o <<" ">>)
       \/ startswith(q, greetings[g] \o <<",">>)

has_keyword(q) == \E k \in 1..Len(keywords) : contains(q, keywords[k])

\* The keyword checks come before the greeting check.
is_in_scope_keywords_first(question) ==
  LET q == strip(lower(question))
  IN  IF search_kerk(q) THEN InDomain
      ELSE IF has_keyword(q) THEN InDomain
      ELSE IF is_greeting(q) THEN Greeting
      ELSE OutOfDomain

is_in_scope(question) ==
  LET q == strip(lower(question))
  IN  IF is_greeting(q) THEN Greeting
      ELSE IF search_kerk(q) THEN InDomain
      ELSE IF has_keyword(q) THEN InDomain
      ELSE OutOfDomain

(***************************************************************************)
(* Retrieval arithmetic (RAGSystem.search)                                 *)
(***************************************************************************)
\* 1.0, in ticks.
One == 6000

\* 0.001, in ticks: the grid of round(x, 3).
Milli == 6

\* n_results of collection.query
N_RESULTS == 10

Min(a, b) == IF a <= b THEN a ELSE b

\* similarity = 1 - (distance / 2.0); distances are even numbers of ticks.
Similarity(distance) == One - (distance \div 2)

\* round(x, 3): the nearest multiple of Milli, an exact tie to the even one.
round3(x) ==
  LET q == x \div Milli
      r == x % Milli
  IN  IF 2 * r < Milli THEN q * Milli
      ELSE IF 2 * r > Milli THEN (q + 1) * Milli
      ELSE IF q % 2 = 0 THEN q * Milli
      ELSE (q + 1) * Milli

\* The comparison is turned round.
Keep_inverted(similarity, threshold) == similarity <= threshold

\* The comparison is strict.
Keep_strict(similarity, threshold) == similarity > threshold

\* if similarity >= self.similarity_threshold
Keep(similarity, threshold) == similarity >= threshold

\* The dictionary appended for entry i of the index's answer; idx stands for
\* the entry's text and metadata (results["documents"][0][i], ["metadatas"][0][i]).
Document(i, distance) ==
  [idx        |-> i,
   similarity |-> round3(Similarity(distance)),
   distance   |-> round3(distance)]

\* documents after the loop over enumerate(results["distances"][0]) has run
\* its first i iterations.
RECURSIVE append_kept(_, _, _)
append_kept(distances, threshold, i) ==
  IF i = 0 THEN <<>>
  ELSE LET before == append_kept(distances, threshold, i - 1)
       IN  IF Keep(Similarity(distances[i]), threshold)
           THEN Append(before, Document(i, distances[i]))
           ELSE before

\* An entry goes before the entries of its own key: ties come out reversed.
insert_sorted_unstable(sorted, d) ==
  LET n == Cardinality({j \in 1..Len(sorted) :
                          sorted[j].similarity > d.similarity})
  IN  SubSeq(sorted, 1, n) \o <<d>> \o SubSeq(sorted, n + 1, Len(sorted))

\* The place list.sort gives d among already sorted entries: behind every
\* entry whose key is not smaller (the sort is stable, also with reverse=True).
insert_sorted(sorted, d) ==
  LET n == Cardinality({j \in 1..Len(sorted) :
                          sorted[j].similarity >= d.similarity})
  IN  SubSeq(sorted, 1, n) \o <<d>> \o SubSeq(sorted, n + 1, Len(sorted))

\* documents.sort(key=lambda x: x["similarity"], reverse=True)
RECURSIVE sort_by_similarity(_)
sort_by_similarity(documents) ==
  IF documents = <<>> THEN <<>>
  ELSE insert_sorted(sort_by_similarity(SubSeq(documents, 1, Len(documents) - 1)),
                     documents[Len(documents)])

\* The slice is missing.
truncate_m(documents, top_k) == documents

\* documents[: self.top_k], top_k a count
truncate(documents, top_k) == SubSeq(documents, 1, Min(top_k, Len(documents)))

\* The slice is taken before the sort.
ranked_m(distances, threshold, top_k) ==
  sort_by_similarity(truncate(append_kept(distances, threshold, Len(distances)),
                              top_k))

\* What search returns for the distances the index answered with.
ranked(distances, threshold, top_k) ==
  truncate(sort_by_similarity(append_kept(distances, threshold, Len(distances))),
           top_k)

(***************************************************************************)
(* Bounds and inputs                                                       *)
(***************************************************************************)
\* Chunks one ingestion run indexes, at most.
MaxChunks == 3

\* Ingestion runs in one behaviour, at most.
MaxRuns == 2

\* The largest top_k a RAGSystem is built with.
MaxTopK == 2

\* top_k is a count of results (Config.TOP_K = 5).
TopKs == 0..MaxTopK

\* similarity_threshold: 0.35 (Config.SIMILARITY_THRESHOLD), 0.35033..., which
\* is not a multiple of 0.001, and 0.7.
Thresholds == {2100, 2102, 4200}

\* Distances the index reports: 0.6, 1.29933..., 1.3 and 1.30033..., of
\* similarity 0.7, 0.35033..., 0.35 and 0.34983...
Distances == {3600, 7796, 7800, 7802}

\* The questions asked in the query cycle: a greeting, one in the domain
\* (with a capital, which normalization changes), one outside it.
Asked ==
  {q \in Questions :
     \/ q = <<"h", "e", "l", "l", "o">>
     \/ q = <<"K", "e", "r", "k", "u", "a", "n", " ", "?">>
     \/ q = <<"y", "o", "g", "a">>}

(***************************************************************************)
(* The answers of RAGSystem.query                                          *)
(***************************************************************************)
GREETING_MSG == "Bonjour ! Je suis votre assistant ..."
OUT_OF_SCOPE_MSG == "Desole, je ne peux repondre qu'aux questions ..."
NO_INFO_MSG == "Je ne dispose pas d'information fiable ..."
OLLAMA_DOWN_MSG == "Erreur: Ollama n'est pas accessible ..."
GENERATION_ERROR_MSG == "Erreur lors de la generation: ..."
LLM_TEXT == "response.get('response').strip()"

\* The question is returned as is_in_scope normalized it.
QueryResult_normalized(answer, sources, has_sources, q) ==
  [answer |-> answer, sources |-> sources, has_sources |-> has_sources,
   question |-> strip(lower(q))]

QueryResult(answer, sources, has_sources, q) ==
  [answer |-> answer, sources |-> sources, has_sources |-> has_sources,
   question |-> q]

\* CAS 1: salutation
GreetingReply(q) == QueryResult(GREETING_MSG, <<>>, FALSE, q)

\* CAS 2: hors domaine
OutOfScopeReply(q) == QueryResult(OUT_OF_SCOPE_MSG, <<>>, FALSE, q)

\* 3.2: pas de sources pertinentes
NoResultsReply(q) == QueryResult(NO_INFO_MSG, <<>>, FALSE, q)

\* The sources are dropped when the answer is an error text.
GenerateReply_m(q, documents, answer) ==
  IF answer = LLM_TEXT THEN QueryResult(answer, documents, TRUE, q)
  ELSE QueryResult(answer, <<>>, FALSE, q)

\* 3.3: generation avec contexte
GenerateReply(q, documents, answer) == QueryResult(answer, documents, TRUE, q)

\* generate_response: the probe ollama.list() and the call ollama.generate
\* each succeed or raise; every exception becomes a text.
generate_response(list_ok, generate_ok) ==
  IF ~list_ok THEN OLLAMA_DOWN_MSG
  ELSE IF ~generate_ok THEN GENERATION_ERROR_MSG
  ELSE LLM_TEXT

\* self.collection = None; a handle is <<id>>, the id of the collection it was
\* resolved to.
NoCollection == <<>>

\* The test of the handle is missing.
search_unavailable_m(collection) == FALSE

\* if not self.collection: return []
search_unavailable(collection) == collection = NoCollection

\* The test of docs is missing.
no_docs_m(documents) == FALSE

\* if not docs
no_docs(documents) == documents = <<>>

(***************************************************************************)
(* The text chunker (DocumentIngester.chunk_text).  Offsets are Python's,  *)
(* counted from 0; text[a:b] is the slice of Python, negative offsets      *)
(* counted from the end.                                                   *)
(***************************************************************************)
\* len(chunk) >= 100
MIN_CHUNK_LEN == 100

Max(a, b) == IF a >= b THEN a ELSE b

\* The offset a slice bound i stands for in a text of n characters.
slice_bound(i, n) == IF i < 0 THEN Max(i + n, 0) ELSE Min(i, n)

\* text[a:b]
slice(s, a, b) == SubSeq(s, slice_bound(a, Len(s)) + 1, slice_bound(b, Len(s)))

\* text.rfind(punct, a, b): the highest offset at which punct lies inside
\* text[a:b], -1 when there is none.
rfind(s, punct, a, b) ==
  LET lo == slice_bound(a, Len(s))
      hi == slice_bound(b, Len(s))
      found == {i \in lo..(hi - Len(punct)) :
                  SubSeq(s, i + 1, i + Len(punct)) = punct}
  IN  IF found = {} THEN -1
      ELSE CHOOSE i \in found : \A j \in found : j <= i

\* The sentence ends searched, in the order of the list.
puncts == << <<".", " ">>, <<"!", " ">>, <<"?", " ">>, <<"\n", "\n">>, <<"\n">> >>

\* The cut lies on the delimiter, not behind it.
cut_after_m(punct_pos, punct) == punct_pos

\* end = punct_pos + len(punct)
cut_after(punct_pos, punct) == punct_pos + Len(punct)

\* The window's end after the search for a sentence end: the first delimiter
\* of the list found in text[start:end] decides, at its last occurrence.
natural_end(s, from, end) ==
  IF end >= Len(s) THEN end
  ELSE LET hits == {p \in 1..Len(puncts) : rfind(s, puncts[p], from, end) # -1}
       IN  IF hits = {} THEN end
           ELSE LET p == CHOOSE x \in hits : \A y \in hits : x <= y
                IN  cut_after(rfind(s, puncts[p], from, end), puncts[p])

\* Every window is kept.
keep_chunk_m(chunk) == TRUE

\* if len(chunk) >= 100
keep_chunk(chunk) == Len(chunk) >= MIN_CHUNK_LEN

\* The dictionary appended for a kept window; the document's metadata, the
\* same in every chunk, is left out.
Chunk(chunk, id, from, end) ==
  [text |-> chunk, chunk_id |-> id, start_char |-> from, end_char |-> end]

\* A discarded window takes a number too.
next_chunk_id_m(id, kept) == id + 1

\* chunk_id += 1, inside the branch of a kept window
next_chunk_id(id, kept) == IF kept THEN id + 1 ELSE id

\* The cursor is not brought back to the window's end.
next_start_unclamped(from, end, size, overlap) == from + size - overlap

\* The cursor is set back from the window's end.
next_start_from_end(from, end, size, overlap) == end - overlap

\* The cursor steps over the character behind the window.
next_start_skipping(from, end, size, overlap) == end + 1

\* start += self.chunk_size - self.chunk_overlap; if start >= end: start = end
next_start(from, end, size, overlap) ==
  LET advanced == from + size - overlap
  IN  IF advanced >= end THEN end ELSE advanced


(***************************************************************************)
(* State                                                                   *)
(***************************************************************************)
VARIABLES
  index,      \* the named collection of the vector index: exists, id, count
  ingester,   \* position of the ingestion run: "idle", "deleted", "created"
  rag,        \* the RAGSystem: built, collection (NoCollection or <<id>>),
              \* top_k, similarity_threshold
  pc,         \* position of the query cycle
  question,   \* the question of the cycle
  scope,      \* is_in_scope(question)
  fetched,    \* the distances the index answered with
  docs,       \* what search returned
  result,     \* the QueryResult returned, None before
  calls,      \* the calls of dependencies made in the cycle, in order
  observed,   \* what the index query of the cycle found: "absent", "stale", "current"
  generation, \* how generate_response ended: "ok", "list_failed", "generate_failed"
  run         \* the ingestion run under way or last ended: before, the entries
              \* the collection held when it began; chunks, the chunks it
              \* had to index

\* The call of chunk_text under way.
VARIABLES
  text,           \* the document's content
  chunk_size,     \* self.chunk_size
  chunk_overlap,  \* self.chunk_overlap
  start,          \* the cursor
  chunk_id,       \* the number of the next kept chunk
  chunks,         \* the chunks kept so far
  windows,        \* the windows <<start, end>> examined so far, in order
  cpc             \* "off" (no call), "loop", "done" (returned)

chunker == <<text, chunk_size, chunk_overlap, start, chunk_id, chunks, windows, cpc>>

\* The call of load_documents under way.
VARIABLES
  files,      \* txt_files: for each file, how its processing ends
  fpos,       \* the files the loop has passed
  documents,  \* the documents loaded so far, by the number of their file
  lpc         \* "off", "loop", "done"

loader == <<files, fpos, documents, lpc>>

\* The collection, entry by entry, and the call of index_documents under way.
VARIABLES
  clock,    \* datetime.now(), in whole seconds
  entries,  \* the identifiers of the entries of the collection
  issued,   \* the identifiers assigned by the calls that have ended
  job       \* the call: pc ("off", "idle", "adding", "raised"), n chunks,
            \* ts, the cursor i, the add calls made, the number of entries
            \* before, the calls made so far

indexer == <<clock, entries, issued, job>>

\* The call of _extract_metadata under way.
VARIABLES
  content,   \* the document's text
  filename,  \* file_path.name
  site,      \* metadata["site"]: <<>> for None, <<name>> otherwise
  mpc        \* "off", "called", "done"

meta == <<content, filename, site, mpc>>

\* The chat session of app.py.
VARIABLES
  session,   \* st.session_state: messages (their roles), query_count
  turn,      \* "off", "idle", "asked" (rag.query under way)
  aborted    \* turns since the last clear in which rag.query raised

chat == <<session, turn, aborted>>

tools == <<loader, indexer, meta, chat>>

vars ==
  <<index, ingester, rag, pc, question, scope, fetched, docs, result, calls,
    observed, generation, run, chunker, tools>>

cycle == <<pc, question, scope, fetched, docs, result, calls, observed, generation>>

\* No query cycle, no RAGSystem, no collection.
ServiceInit ==
  /\ index = [exists |-> FALSE, id |-> 0, count |-> 0]
  /\ ingester = "idle"
  /\ rag = [built |-> FALSE, collection |-> NoCollection, top_k |-> 0,
            similarity_threshold |-> 2100]
  /\ pc = "idle"
  /\ question = <<>>
  /\ scope = None
  /\ fetched = <<>>
  /\ docs = <<>>
  /\ result = None
  /\ calls = <<>>
  /\ observed = None
  /\ generation = None
  /\ run = [before |-> 0, chunks |-> 0]

\* No call of chunk_text.
ChunkerOff ==
  /\ text = <<>>
  /\ chunk_size = 0
  /\ chunk_overlap = 0
  /\ start = 0
  /\ chunk_id = 0
  /\ chunks = <<>>
  /\ windows = <<>>
  /\ cpc = "off"

\* No call of load_documents.
LoaderOff ==
  /\ files = <<>>
  /\ fpos = 0
  /\ documents = <<>>
  /\ lpc = "off"

\* No entry-level view of the collection.
IndexerOff ==
  /\ clock = 0
  /\ entries = {}
  /\ issued = {}
  /\ job = [pc |-> "off", n |-> 0, ts |-> 0, i |-> 0, adds |-> <<>>,
            before |-> 0, calls |-> 0]

\* No call of _extract_metadata.
MetaOff ==
  /\ content = <<>>
  /\ filename = <<>>
  /\ site = <<>>
  /\ mpc = "off"

\* No chat session.
ChatOff ==
  /\ session = [messages |-> <<>>, query_count |-> 0]
  /\ turn = "off"
  /\ aborted = 0

ToolsOff == LoaderOff /\ IndexerOff /\ MetaOff /\ ChatOff

Init == ServiceInit /\ ChunkerOff /\ ToolsOff

(***************************************************************************)
(* The ingestion run (ingest.py)                                           *)
(***************************************************************************)
\* DocumentIngester.__init__, first half: delete_collection; its exception
\* when the collection is absent is swallowed.
Ingester_delete_collection ==
  /\ ingester = "idle"
  /\ index.id < MaxRuns
  /\ index' = [index EXCEPT !.exists = FALSE, !.count = 0]
  /\ ingester' = "deleted"
  /\ run' = [before |-> index.count, chunks |-> 0]
  /\ UNCHANGED <<tools, chunker, rag, cycle>>

\* DocumentIngester.__init__, second half: create_collection makes a new,
\* empty collection of the same name.
Ingester_create_collection ==
  /\ ingester = "deleted"
  /\ index' = [exists |-> TRUE, id |-> index.id + 1, count |-> 0]
  /\ ingester' = "created"
  /\ UNCHANGED <<tools, chunker, run, rag, cycle>>

\* The last chunk is left out of the batches.
count_after_add_m(count, n) == IF n = 0 THEN count ELSE count + n - 1

\* The count of the collection after index_documents has added n chunks;
\* with no chunk it returns before any add.
count_after_add(count, n) == IF n = 0 THEN count ELSE count + n

\* main: load_documents and index_documents, with n chunks in all.
Ingester_index_documents(n) ==
  /\ ingester = "created"
  /\ index' = [index EXCEPT !.count = count_after_add(index.count, n)]
  /\ ingester' = "idle"
  /\ run' = [run EXCEPT !.chunks = n]
  /\ UNCHANGED <<tools, chunker, rag, cycle>>

(***************************************************************************)
(* RAGSystem (rag.py)                                                      *)
(***************************************************************************)
\* The handle __init__ keeps: get_collection and count() inside try, None on
\* any exception.
resolve_collection(ix, ok) ==
  IF ix.exists /\ ok THEN <<ix.id>> ELSE NoCollection

\* load_rag_system is not cached: every request builds its RAGSystem.
RAGSystem_init_uncached(top_k, similarity_threshold, ok) ==
  /\ pc = "idle"
  /\ rag' = [built |-> TRUE,
             collection |-> resolve_collection(index, ok),
             top_k |-> top_k,
             similarity_threshold |-> similarity_threshold]
  /\ UNCHANGED <<tools, chunker, run, index, ingester, cycle>>

\* RAGSystem.__init__, once per process (load_rag_system is cached).
RAGSystem_init(top_k, similarity_threshold, ok) ==
  /\ ~rag.built
  /\ rag' = [built |-> TRUE,
             collection |-> resolve_collection(index, ok),
             top_k |-> top_k,
             similarity_threshold |-> similarity_threshold]
  /\ UNCHANGED <<tools, chunker, run, index, ingester, cycle>>

\* if scope == "greeting"
scope_is_greeting(s) == s = Greeting

\* A question classified False no longer reaches the test "if not scope".
scope_is_out_m(s) == FALSE

\* if not scope
scope_is_out(s) == s = OutOfDomain

\* query up to its first call of a dependency: is_in_scope, the two fixed
\* replies, and the test of the handle at the head of search.
Query(q) ==
  /\ rag.built
  /\ pc = "idle"
  /\ question' = q
  /\ scope' = is_in_scope(q)
  /\ calls' = <<>>
  /\ IF scope_is_greeting(scope')
     THEN /\ result' = GreetingReply(q)
          /\ pc' = "done"
     ELSE IF scope_is_out(scope')
     THEN /\ result' = OutOfScopeReply(q)
          /\ pc' = "done"
     ELSE IF search_unavailable(rag.collection)
     THEN /\ result' = NoResultsReply(q)
          /\ pc' = "done"
     ELSE /\ result' = result
          /\ pc' = "encode"
  /\ UNCHANGED <<tools, chunker, run, index, ingester, rag, fetched, docs, observed, generation>>

\* The question is embedded a second time.
Search_encode_twice(ok) ==
  /\ pc = "encode"
  /\ calls' = calls \o <<"encode", "encode">>
  /\ pc' = IF ok THEN "index_query" ELSE "raised"
  /\ UNCHANGED <<tools, chunker, run, index, ingester, rag, question, scope, fetched, docs, result,
                 observed, generation>>

\* search: self.embedding_model.encode(query), which returns or raises.
Search_encode(ok) ==
  /\ pc = "encode"
  /\ calls' = Append(calls, "encode")
  /\ pc' = IF ok THEN "index_query" ELSE "raised"
  /\ UNCHANGED <<tools, chunker, run, index, ingester, rag, question, scope, fetched, docs, result,
                 observed, generation>>

\* What the handle of the RAGSystem refers to when the index is queried.
handle_state(ix, collection) ==
  IF ~ix.exists THEN "absent"
  ELSE IF collection # <<ix.id>> THEN "stale"
  ELSE "current"

\* search: self.collection.query raises; it always does when the collection
\* of the handle has been deleted and none of its name exists.
Search_query_raises ==
  /\ pc = "index_query"
  /\ calls' = Append(calls, "collection.query")
  /\ observed' = handle_state(index, rag.collection)
  /\ pc' = "raised"
  /\ UNCHANGED <<tools, chunker, run, index, ingester, rag, question, scope, fetched, docs, result,
                 generation>>

\* search: self.collection.query answers with the distances of the
\* min(n_results, count) nearest entries (a stale handle is answered by the
\* index versions that address a collection by name), then the filter, the
\* sort, the truncation, and the test of docs in query.
Search_query_answers(distances) ==
  /\ pc = "index_query"
  /\ index.exists
  /\ calls' = Append(calls, "collection.query")
  /\ observed' = handle_state(index, rag.collection)
  /\ fetched' = distances
  /\ docs' = ranked(distances, rag.similarity_threshold, rag.top_k)
  /\ IF no_docs(docs')
     THEN /\ result' = NoResultsReply(question)
          /\ pc' = "done"
     ELSE /\ result' = result
          /\ pc' = "generate"
  /\ UNCHANGED <<tools, chunker, run, index, ingester, rag, question, scope, generation>>

\* query: build_prompt, generate_response and the last return.
Query_generate(list_ok, generate_ok) ==
  /\ pc = "generate"
  /\ calls' = IF list_ok THEN calls \o <<"ollama.list", "ollama.generate">>
              ELSE Append(calls, "ollama.list")
  /\ generation' = IF ~list_ok THEN "list_failed"
                   ELSE IF ~generate_ok THEN "generate_failed"
                   ELSE "ok"
  /\ result' = GenerateReply(question, docs,
                             generate_response(list_ok, generate_ok))
  /\ pc' = "done"
  /\ UNCHANGED <<tools, chunker, run, index, ingester, rag, question, scope, fetched, docs, observed>>

\* The caller has the result, or the exception; the next question may come.
Query_return ==
  /\ pc \in {"done", "raised"}
  /\ pc' = "idle"
  /\ question' = <<>>
  /\ scope' = None
  /\ fetched' = <<>>
  /\ docs' = <<>>
  /\ result' = None
  /\ calls' = <<>>
  /\ observed' = None
  /\ generation' = None
  /\ UNCHANGED <<tools, chunker, run, index, ingester, rag>>

\* The answers the index can give for n entries.
DistanceLists(n) == [1..n -> Distances]

Next ==
  \/ Ingester_delete_collection
  \/ Ingester_create_collection
  \/ \E n \in 0..MaxChunks : Ingester_index_documents(n)
  \/ \E k \in TopKs, t \in Thresholds, ok \in BOOLEAN : RAGSystem_init(k, t, ok)
  \/ \E q \in Asked : Query(q)
  \/ \E ok \in BOOLEAN : Search_encode(ok)
  \/ Search_query_raises
  \/ \E distances \in DistanceLists(Min(N_RESULTS, index.count)) :
       Search_query_answers(distances)
  \/ \E list_ok, generate_ok \in BOOLEAN : Query_generate(list_ok, generate_ok)
  \/ Query_return

Spec == Init /\ [][Next]_vars

(***************************************************************************)
(* search against an index that answers nearest first                      *)
(***************************************************************************)
\* Entries the collection holds, at most.
MaxCount == 11

\* top_k: none, fewer than the index returns, more than it ever returns.
SearchTopKs == {0, 3, 11}

\* The distances of Distances, nearest first.
DistanceOrder == <<3600, 7796, 7800, 7802>>

\* The lists of n distances in non-decreasing order.
SortedDistances(n) ==
  {[i \in 1..n |-> DistanceOrder[1 + Cardinality({c \in 1..3 : cuts[c] < i})]] :
     cuts \in [1..3 -> 0..n]}

\* search has embedded a question of the domain and is about to query a
\* collection of index.count entries.
InitSearch ==
  /\ \E n \in 0..MaxCount :
       /\ index = [exists |-> TRUE, id |-> 1, count |-> n]
       /\ run = [before |-> 0, chunks |-> n]
  /\ ingester = "idle"
  /\ \E k \in SearchTopKs, t \in Thresholds :
       rag = [built |-> TRUE, collection |-> <<1>>, top_k |-> k,
              similarity_threshold |-> t]
  /\ pc = "index_query"
  /\ question = <<"j", "'", "a", "i", "m", "e", " ", "c", "a", "r", "t", "h", "a", "g", "e">>
  /\ scope = InDomain
  /\ fetched = <<>>
  /\ docs = <<>>
  /\ result = None
  /\ calls = <<"encode">>
  /\ observed = None
  /\ generation = None
  /\ ChunkerOff
  /\ ToolsOff

NextSearch ==
  \E distances \in SortedDistances(Min(N_RESULTS, index.count)) :
    Search_query_answers(distances)

SpecSearch == InitSearch /\ [][NextSearch]_vars

(***************************************************************************)
(* load_documents, one file per step                                       *)
(***************************************************************************)
\* Files in the corpus directory, at most.
MaxFiles == 3

\* How the processing of a file ends: the document is appended, read_text
\* raises, or _extract_metadata raises.
FileOutcomes == {"ok", "read_fails", "metadata_fails"}

\* The documents after the file numbered k: appended in the try branch,
\* left alone when the except branch has logged the error.
loaded(loaded_so_far, k, outcome) ==
  IF outcome = "ok" THEN Append(loaded_so_far, k) ELSE loaded_so_far

\* The first failure ends the loop.
after_file_abort(pos, outcome, n) == IF outcome = "ok" THEN pos + 1 ELSE n

\* for file_path in txt_files: the loop goes on to the next file after the
\* try branch and after the except branch alike.
after_file(pos, outcome, n) == pos + 1

InitLoad ==
  /\ ServiceInit
  /\ ChunkerOff
  /\ IndexerOff
  /\ MetaOff
  /\ ChatOff
  /\ files \in UNION {[1..n -> FileOutcomes] : n \in 0..MaxFiles}
  /\ fpos = 0
  /\ documents = <<>>
  /\ lpc = "loop"

\* One iteration of the loop over txt_files.
Load_file ==
  /\ lpc = "loop"
  /\ fpos < Len(files)
  /\ documents' = loaded(documents, fpos + 1, files[fpos + 1])
  /\ fpos' = after_file(fpos, files[fpos + 1], Len(files))
  /\ UNCHANGED <<index, ingester, run, rag, cycle, chunker, indexer, meta, chat,
                 files, lpc>>

\* return documents
Load_return ==
  /\ lpc = "loop"
  /\ fpos >= Len(files)
  /\ lpc' = "done"
  /\ UNCHANGED <<index, ingester, run, rag, cycle, chunker, indexer, meta, chat,
                 files, fpos, documents>>

NextLoad == Load_file \/ Load_return

SpecLoad == InitLoad /\ [][NextLoad]_vars

(***************************************************************************)
(* index_documents, one add call per step, against the entries of the      *)
(* collection.  The identifier "chunk_{ts}_{i}" is the pair <<ts, i>>.     *)
(***************************************************************************)
\* batch_size
BATCH_SIZE == 50

\* Seconds that pass, at most.
MaxClock == 1

\* Calls of index_documents, at most.
MaxCalls == 2

\* The numbers of chunks a call has to index: none, one, a full batch, one
\* more, two batches and one more.
IndexSizes == {0, 1, 50, 51, 101}

\* ids = [f"chunk_{ts}_{i}" for i in range(len(texts))], from position a up
\* to position b
ids(ts, a, b) == {<<ts, k>> : k \in a..(b - 1)}

\* The last position of a batch is left out.
batch_end_short(i, n) == Min(i + BATCH_SIZE - 1, n)

\* batch_end = min(i + batch_size, len(ids))
batch_end(i, n) == Min(i + BATCH_SIZE, n)

\* The positions <<from, to>> that the slice [a:b] of a list of n elements
\* takes.
slice_range(a, b, n) == <<slice_bound(a, n), slice_bound(b, n)>>

\* The arguments of one collection.add: the four lists, each sliced [i:e].
AddCall(i, e, n) ==
  [embeddings |-> slice_range(i, e, n),
   documents  |-> slice_range(i, e, n),
   metadatas  |-> slice_range(i, e, n),
   ids        |-> slice_range(i, e, n)]

\* No call under way; made is the number of calls made so far.
IdleJob(made) ==
  [pc |-> "idle", n |-> 0, ts |-> 0, i |-> 0, adds |-> <<>>, before |-> 0,
   calls |-> made]

\* An ingester has just been constructed: the collection is new and empty.
InitIndex ==
  /\ ServiceInit
  /\ ChunkerOff
  /\ LoaderOff
  /\ MetaOff
  /\ ChatOff
  /\ clock = 0
  /\ entries = {}
  /\ issued = {}
  /\ job = IdleJob(0)

\* A second passes.
Clock_tick ==
  /\ clock < MaxClock
  /\ clock' = clock + 1
  /\ UNCHANGED <<index, ingester, run, rag, cycle, chunker, loader, meta, chat,
                 entries, issued, job>>

\* DocumentIngester.__init__: the collection is deleted and created anew.
Index_construct ==
  /\ job.pc \in {"idle", "raised"}
  /\ entries # {}
  /\ entries' = {}
  /\ job' = IdleJob(job.calls)
  /\ UNCHANGED <<index, ingester, run, rag, cycle, chunker, loader, meta, chat,
                 clock, issued>>

\* index_documents up to the loop over the batches, for n chunks: with none
\* it warns and returns; otherwise the identifiers are made from the clock.
Index_call(n) ==
  /\ job.pc = "idle"
  /\ job.calls < MaxCalls
  /\ job' = [pc |-> IF n = 0 THEN "idle" ELSE "adding",
             n |-> n, ts |-> clock, i |-> 0, adds |-> <<>>,
             before |-> Cardinality(entries), calls |-> job.calls + 1]
  /\ UNCHANGED <<index, ingester, run, rag, cycle, chunker, loader, meta, chat,
                 clock, entries, issued>>

\* One iteration of the loop: collection.add of the batch [i:batch_end].  An
\* identifier the collection already holds makes the index reject the call
\* (the exception leaves index_documents) or skip that entry, as its version
\* has it.
Index_add(rejects) ==
  /\ job.pc = "adding"
  /\ LET e == batch_end(job.i, job.n)
         a == AddCall(job.i, e, job.n)
         batch == ids(job.ts, a.ids[1], a.ids[2])
     IN  /\ rejects => batch \cap entries # {}
         /\ IF rejects
            THEN /\ job' = [job EXCEPT !.pc = "raised"]
                 /\ issued' = issued \cup ids(job.ts, 0, job.n)
                 /\ UNCHANGED entries
            ELSE /\ entries' = entries \cup batch
                 /\ job' = [job EXCEPT
                              !.adds = Append(job.adds, a),
                              !.i = job.i + BATCH_SIZE,
                              !.pc = IF job.i + BATCH_SIZE < job.n
                                     THEN "adding" ELSE "idle"]
                 /\ issued' = IF job.i + BATCH_SIZE < job.n THEN issued
                              ELSE issued \cup ids(job.ts, 0, job.n)
  /\ UNCHANGED <<index, ingester, run, rag, cycle, chunker, loader, meta, chat,
                 clock>>

NextIndex ==
  \/ Clock_tick
  \/ Index_construct
  \/ \E n \in IndexSizes : Index_call(n)
  \/ \E rejects \in BOOLEAN : Index_add(rejects)

SpecIndex == InitIndex /\ [][NextIndex]_vars

(***************************************************************************)
(* The site of a document (_extract_metadata, _guess_site_from_filename).  *)
(* Positions in a text are counted from 1.                                 *)
(***************************************************************************)
\* The first position from p on that holds no whitespace, Len(s) + 1 when
\* there is none: where a greedy \s* ends before a character that is not
\* whitespace.
skip_ws(s, p) ==
  LET stops == {q \in p..(Len(s) + 1) : q = Len(s) + 1 \/ s[q] \notin Whitespace}
  IN  CHOOSE q \in stops : \A r \in stops : q <= r

\* ^ under re.MULTILINE: the start of the text or the position behind a
\* newline.
line_start(s, p) == p = 1 \/ s[p - 1] = "\n"

\* The position of the $ that ends the line of p: that of the next newline,
\* Len(s) + 1 in the last line.
line_end(s, p) ==
  LET stops == {q \in p..(Len(s) + 1) : q = Len(s) + 1 \/ s[q] = "\n"}
  IN  CHOOSE q \in stops : \A r \in stops : q <= r

\* Where (.+) can begin behind the separator at position sep: \s* gives back
\* whitespace until a character other than a newline follows.
group_starts(s, sep) ==
  {g \in (sep + 1)..skip_ws(s, sep + 1) : g <= Len(s) /\ s[g] # "\n"}

\* The separator of a match of ^\s*key\s*[:\-]\s*(.+)$ attempted at p, 0 when
\* the attempt fails; the key matches in any case of its letters.
match_sep(s, key, p) ==
  LET q   == skip_ws(s, p)
      sep == skip_ws(s, q + Len(key))
  IN  IF /\ q + Len(key) - 1 <= Len(s)
         /\ lower(SubSeq(s, q, q + Len(key) - 1)) = key
         /\ sep <= Len(s)
         /\ s[sep] \in {":", "-"}
         /\ group_starts(s, sep) # {}
      THEN sep ELSE 0

\* re.search(pattern, content, re.IGNORECASE | re.MULTILINE) and
\* match.group(1): <<>> without a match, otherwise <<group>> of the leftmost
\* match, the greedy \s* before the group as long as it can be.
re_search(s, key) ==
  LET found == {p \in 1..(Len(s) + 1) :
                  line_start(s, p) /\ match_sep(s, key, p) # 0}
  IN  IF found = {} THEN <<>>
      ELSE LET p   == CHOOSE x \in found : \A y \in found : x <= y
               sep == match_sep(s, key, p)
               g   == CHOOSE x \in group_starts(s, sep) :
                        \A y \in group_starts(s, sep) : y <= x
           IN  <<SubSeq(s, g, line_end(s, g) - 1)>>

\* The patterns are tried in another order.
site_patterns_reordered == <<<<"n", "o", "m">>, <<"s", "i", "t", "e">>, <<"l", "i", "e", "u">>>>

\* site_patterns, each by its key, in the order of the list
site_patterns == <<<<"s", "i", "t", "e">>, <<"n", "o", "m">>, <<"l", "i", "e", "u">>>>

\* sites_map, in the order of its keys
sites_map ==
  <<
    <<<<"c", "a", "r", "t", "h", "a", "g", "e">>, <<"C", "a", "r", "t", "h", "a", "g", "e">>>>,
    <<<<"d", "o", "u", "g", "g", "a">>, <<"D", "o", "u", "g", "g", "a">>>>,
    <<<<"e", "l", "_", "j", "e", "m">>, <<"E", "l", " ", "J", "e", "m">>>>,
    <<<<"e", "l", "j", "e", "m">>, <<"E", "l", " ", "J", "e", "m">>>>,
    <<<<"e", "l", " ", "j", "e", "m">>, <<"E", "l", " ", "J", "e", "m">>>>,
    <<<<"s", "b", "e", "i", "t", "l", "a">>, <<"S", "b", "e", "i", "t", "l", "a">>>>,
    <<<<"s", "b", "e", "ï", "t", "l", "a">>, <<"S", "b", "e", "ï", "t", "l", "a">>>>,
    <<<<"k", "e", "r", "k", "o", "u", "a", "n", "e">>, <<"K", "e", "r", "k", "o", "u", "a", "n", "e">>>>,
    <<<<"k", "e", "r", "k">>, <<"K", "e", "r", "k", "o", "u", "a", "n", "e">>>>,
    <<<<"b", "u", "l", "l", "a">>, <<"B", "u", "l", "l", "a", " ", "R", "e", "g", "i", "a">>>>,
    <<<<"u", "t", "h", "i", "n", "a">>, <<"U", "t", "h", "i", "n", "a">>>>,
    <<<<"m", "a", "k", "t", "a", "r">>, <<"M", "a", "k", "t", "a", "r">>>>,
    <<<<"t", "h", "u", "b", "u", "r", "b", "o">>, <<"T", "h", "u", "b", "u", "r", "b", "o", " ", "M", "a", "j", "u", "s">>>>,
    <<<<"c", "h", "e", "m", "t", "o", "u">>, <<"C", "h", "e", "m", "t", "o", "u">>>>
  >>

\* _guess_site_from_filename: <<>> for None
guess_site_from_filename(name) ==
  LET fname == lower(name)
      hits  == {k \in 1..Len(sites_map) : contains(fname, sites_map[k][1])}
  IN  IF hits = {} THEN <<>>
      ELSE <<sites_map[CHOOSE k \in hits : \A j \in hits : k <= j][2]>>

\* metadata["site"] as _extract_metadata leaves it: the group of the first
\* pattern that matches, stripped; the guess from the filename when no
\* pattern matched or the stripped group is empty.
extract_site(text_, name) ==
  LET matched == {k \in 1..Len(site_patterns) :
                    re_search(text_, site_patterns[k]) # <<>>}
      first   == CHOOSE k \in matched : \A j \in matched : k <= j
  IN  IF matched # {} /\ strip(re_search(text_, site_patterns[first])[1]) # <<>>
      THEN <<strip(re_search(text_, site_patterns[first])[1])>>
      ELSE guess_site_from_filename(name)

\* Lines a document has, at most.
MaxLines == 2

\* The lines documents are made of.
SiteLines ==
  {
    <<"S", "i", "t", "e", ":", " ", "C", "a", "r", "t", "h", "a", "g", "e">>,
    <<" ", " ", "n", "o", "m", " ", "-", " ", "D", "o", "u", "g", "g", "a", " ", " ">>,
    <<"L", "I", "E", "U", ":", "U", "t", "h", "i", "n", "a">>,
    <<"S", "i", "t", "e", ":", " ", " ">>,
    <<"L", "e", " ", "s", "i", "t", "e", ":", " ", "M", "a", "k", "t", "a", "r">>,
    <<"N", "o", "m", ":">>
  }

RECURSIVE join_lines(_)
join_lines(ls) ==
  IF ls = <<>> THEN <<>>
  ELSE IF Len(ls) = 1 THEN ls[1]
  ELSE ls[1] \o <<"\n">> \o join_lines(Tail(ls))

Contents == {join_lines(ls) : ls \in UNION {[1..n -> SiteLines] : n \in 0..MaxLines}}

Filenames ==
  {
    <<"c", "a", "r", "t", "h", "a", "g", "e", ".", "t", "x", "t">>,
    <<"K", "e", "r", "k", "o", "u", "a", "n", "e", "_", "s", "i", "t", "e", ".", "t", "x", "t">>,
    <<"n", "o", "t", "e", "s", ".", "t", "x", "t">>,
    <<"e", "l", "_", "j", "e", "m", "_", "b", "u", "l", "l", "a", ".", "t", "x", "t">>,
    <<"k", "e", "r", "k", ".", "t", "x", "t">>
  }

InitMeta ==
  /\ ServiceInit
  /\ ChunkerOff
  /\ LoaderOff
  /\ IndexerOff
  /\ ChatOff
  /\ content \in Contents
  /\ filename \in Filenames
  /\ site = <<>>
  /\ mpc = "called"

\* _extract_metadata, as far as the site.
Extract_site ==
  /\ mpc = "called"
  /\ site' = extract_site(content, filename)
  /\ mpc' = "done"
  /\ UNCHANGED <<index, ingester, run, rag, cycle, chunker, loader, indexer, chat,
                 content, filename>>

NextMeta == Extract_site

SpecMeta == InitMeta /\ [][NextMeta]_vars

(***************************************************************************)
(* The chat session (app.py): question turns and the "Effacer" button      *)
(***************************************************************************)
\* Question turns between two clears, at most.
MaxTurns == 3

\* The questions typed or picked from the examples.
ChatQuestions == {"Parle-moi de Carthage", "Sites puniques"}

\* st.session_state.messages.append({"role": role, "content": content})
appended(sess, role, text_) ==
  [sess EXCEPT !.messages = Append(sess.messages, [role |-> role, content |-> text_])]

\* The button empties the messages and leaves the counter.
cleared_messages_only(sess) == [sess EXCEPT !.messages = <<>>]

\* st.session_state.messages = []; st.session_state.query_count = 0
cleared(sess) == [messages |-> <<>>, query_count |-> 0]

\* init_state on the first run of the script.
InitChat ==
  /\ ServiceInit
  /\ ChunkerOff
  /\ LoaderOff
  /\ IndexerOff
  /\ MetaOff
  /\ session = [messages |-> <<>>, query_count |-> 0]
  /\ turn = "idle"
  /\ aborted = 0

\* A question arrives: the user message is appended and the counter raised,
\* then rag.query is called.
Chat_ask(q) ==
  /\ turn = "idle"
  /\ session.query_count < MaxTurns
  /\ session' = [appended(session, "user", q) EXCEPT
                   !.query_count = session.query_count + 1]
  /\ turn' = "asked"
  /\ UNCHANGED <<index, ingester, run, rag, cycle, chunker, loader, indexer, meta,
                 aborted>>

\* rag.query returns: the answer is shown and appended.
Chat_answer ==
  /\ turn = "asked"
  /\ session' = appended(session, "assistant", "answer")
  /\ turn' = "idle"
  /\ UNCHANGED <<index, ingester, run, rag, cycle, chunker, loader, indexer, meta,
                 aborted>>

\* rag.query raises: the run of the script ends there.
Chat_raise ==
  /\ turn = "asked"
  /\ turn' = "idle"
  /\ aborted' = aborted + 1
  /\ UNCHANGED <<index, ingester, run, rag, cycle, chunker, loader, indexer, meta,
                 session>>

\* The button "Effacer".
Chat_clear ==
  /\ turn = "idle"
  /\ session.messages # <<>>
  /\ session' = cleared(session)
  /\ aborted' = 0
  /\ UNCHANGED <<index, ingester, run, rag, cycle, chunker, loader, indexer, meta,
                 turn>>

NextChat ==
  \/ \E q \in ChatQuestions : Chat_ask(q)
  \/ Chat_answer
  \/ Chat_raise
  \/ Chat_clear

SpecChat == InitChat /\ [][NextChat]_vars

(***************************************************************************)
(* chunk_text, one loop iteration per step                                 *)
(***************************************************************************)
\* Windows one call may examine, at most.
MaxWindows == 8

\* Segments a document is made of, at most.
MaxSegs == 2

\* A segment: a run of letters and the delimiter that ends it.
SegLens == {0, 99, 130}
SegEnds == {<<>>, <<".", " ">>, <<"\n">>}
Segments == {s \in SegLens \X SegEnds : s # <<0, <<>> >>}

Segment(s) == [i \in 1..s[1] |-> "a"] \o s[2]

RECURSIVE Join(_)
Join(segs) == IF segs = <<>> THEN <<>> ELSE Segment(segs[1]) \o Join(Tail(segs))

\* The documents chunked.
Texts == {Join(segs) : segs \in UNION {[1..n -> Segments] : n \in 0..MaxSegs}}

\* <<chunk_size, chunk_overlap>>: overlap below the size, no overlap, and the
\* degenerate overlap equal to the size and above it.
ChunkParams == {<<120, 30>>, <<150, 0>>, <<120, 120>>, <<100, 130>>}

\* chunk_text(text, metadata) of an ingester with the given sizes is called.
InitChunk ==
  /\ ServiceInit
  /\ ToolsOff
  /\ text \in Texts
  /\ \E p \in ChunkParams : chunk_size = p[1] /\ chunk_overlap = p[2]
  /\ start = 0
  /\ chunk_id = 0
  /\ chunks = <<>>
  /\ windows = <<>>
  /\ cpc = "loop"

\* One iteration of the while loop.
chunk_text_iteration ==
  /\ cpc = "loop"
  /\ start < Len(text)
  /\ Len(windows) < MaxWindows
  /\ LET end == natural_end(text, start, Min(start + chunk_size, Len(text)))
         chunk == strip(slice(text, start, end))
     IN  /\ windows' = Append(windows, <<start, end>>)
         /\ chunks' = IF keep_chunk(chunk)
                      THEN Append(chunks, Chunk(chunk, chunk_id, start, end))
                      ELSE chunks
         /\ chunk_id' = next_chunk_id(chunk_id, keep_chunk(chunk))
         /\ start' = next_start(start, end, chunk_size, chunk_overlap)
  /\ UNCHANGED <<tools, index, ingester, run, rag, cycle, text, chunk_size, chunk_overlap, cpc>>

\* The loop condition fails: return chunks.
chunk_text_return ==
  /\ cpc = "loop"
  /\ start >= Len(text)
  /\ cpc' = "done"
  /\ UNCHANGED <<tools, index, ingester, run, rag, cycle, text, chunk_size, chunk_overlap,
                 start, chunk_id, chunks, windows>>

NextChunk == chunk_text_iteration \/ chunk_text_return

SpecChunk == InitChunk /\ [][NextChunk]_vars

(***************************************************************************)
(* is_in_scope on its own                                                  *)
(***************************************************************************)
\* How a question may begin.
ScopeHeads ==
  {<<>>, <<"B", "o", "n", "j", "o", "u", "r">>, <<"h", "i">>, <<"g", "o", "o", "d", " ", "m", "o", "r", "n", "i", "n", "g">>, <<"Y", "O">>,
   <<"k", "e", "r", "k">>, <<"l", "e", " ", "f", "o", "r", "u", "m">>}

\* What may follow the beginning.
ScopeSeps == {<<>>, <<" ">>, <<",">>, <<"!">>, <<"s">>}

\* How a question may end.
ScopeTails ==
  {<<>>, <<"c", "a", "r", "t", "h", "a", "g", "e">>, <<"K", "e", "r", "k", "u", "a", "n">>, <<"p", "i", "z", "z", "a">>,
   <<"a", "k", "e", "r", "k">>, <<" ", "\n">>}

ScopeQuestions ==
  Questions \cup {h \o p \o t : h \in ScopeHeads, p \in ScopeSeps, t \in ScopeTails}

\* The RAGSystem objects the method is called on.
ScopeRags ==
  {[built |-> TRUE, collection |-> c, top_k |-> 1, similarity_threshold |-> t] :
     c \in {NoCollection, <<1>>}, t \in {2100, 4200}}

InitScope ==
  /\ index = [exists |-> FALSE, id |-> 0, count |-> 0]
  /\ ingester = "idle"
  /\ run = [before |-> 0, chunks |-> 0]
  /\ rag \in ScopeRags
  /\ pc = "idle"
  /\ question \in ScopeQuestions
  /\ scope = None
  /\ fetched = <<>>
  /\ docs = <<>>
  /\ result = None
  /\ calls = <<>>
  /\ observed = None
  /\ generation = None
  /\ ChunkerOff
  /\ ToolsOff

\* A call of is_in_scope: it reads the question and nothing of the object.
Classify ==
  /\ scope = None
  /\ scope' = is_in_scope(question)
  /\ UNCHANGED <<index, ingester, run, rag, pc, question, fetched, docs, result,
                 calls, observed, generation, chunker, tools>>

NextScope == Classify

SpecScope == InitScope /\ [][NextScope]_vars

(***************************************************************************)
(* Properties of chunk_text                                                *)
(***************************************************************************)
\* A positive chunk_size and an overlap below it.
ValidParams == chunk_size > 0 /\ 0 <= chunk_overlap /\ chunk_overlap < chunk_size

\* The stripped text of window w.
WindowChunk(w) == strip(SubSeq(text, w[1] + 1, w[2]))

\* Offset p lies in the span from..end.
InSpan(p, from, end) == from <= p /\ p < end

\* Offset p lies in the span of a returned chunk.
InChunk(p) ==
  \E k \in 1..Len(chunks) : InSpan(p, chunks[k].start_char, chunks[k].end_char)

\* C11: with a positive chunk_size and 0 <= chunk_overlap < chunk_size the
\* cursor is strictly larger after every loop iteration and never beyond the
\* end of the text, so the loop ends: no call needs MaxWindows iterations.
C11_CursorAdvances ==
  [][(ValidParams /\ cpc = "loop") =>
       \/ cpc' = "done"
       \/ /\ start' > start
          /\ start' <= Len(text)
          /\ start' < Len(text) => Len(windows') < MaxWindows]_vars

\* A call that returned after three windows or more, one of them cut at a
\* sentence end.
C11_Witness ==
  /\ ValidParams
  /\ cpc = "done"
  /\ Len(windows) >= 3
  /\ \E i \in 1..Len(windows) :
       /\ windows[i][2] < Len(text)
       /\ windows[i][2] - windows[i][1] < chunk_size

\* C12: with chunk_overlap >= chunk_size too, every loop iteration moves the
\* cursor forward.
C12_DegenerateOverlapAdvances ==
  [][(cpc = "loop" /\ chunk_overlap >= chunk_size) =>
       (cpc' = "done" \/ start' > start)]_vars

\* C13 as stated: the spans of the returned chunks contain every character
\* of the text that is not whitespace.
C13_ChunksCoverText ==
  cpc = "done" =>
    \A p \in 0..(Len(text) - 1) : text[p + 1] \notin Whitespace => InChunk(p)

\* C13, amended: the windows examined cover the whole text, and every window
\* whose stripped text has at least 100 characters is the span of a returned
\* chunk; a character is in no chunk only if it is in a window that was
\* discarded as too short.
C13_WindowsCoverText ==
  cpc = "done" =>
    /\ \A p \in 0..(Len(text) - 1) :
         \E i \in 1..Len(windows) : InSpan(p, windows[i][1], windows[i][2])
    /\ \A i \in 1..Len(windows) :
         Len(WindowChunk(windows[i])) >= MIN_CHUNK_LEN =>
           \E k \in 1..Len(chunks) :
             /\ chunks[k].start_char = windows[i][1]
             /\ chunks[k].end_char = windows[i][2]
    /\ \A p \in 0..(Len(text) - 1) :
         ~InChunk(p) =>
           \E i \in 1..Len(windows) :
             /\ InSpan(p, windows[i][1], windows[i][2])
             /\ Len(WindowChunk(windows[i])) < MIN_CHUNK_LEN

\* Chunks were returned, and a letter of a discarded window is in none.
C13_Witness ==
  /\ cpc = "done"
  /\ chunks # <<>>
  /\ \E p \in 0..(Len(text) - 1) : text[p + 1] = "a" /\ ~InChunk(p)

\* C14: the text of every chunk is stripped and has at least 100 characters;
\* a text of fewer than 100 characters, the empty one included, gives no chunk.
C14_MinimumSize ==
  /\ \A k \in 1..Len(chunks) :
       /\ Len(chunks[k].text) >= MIN_CHUNK_LEN
       /\ chunks[k].text[1] \notin Whitespace
       /\ chunks[k].text[Len(chunks[k].text)] \notin Whitespace
  /\ (cpc = "done" /\ Len(text) < MIN_CHUNK_LEN) => chunks = <<>>

\* A chunk of exactly 100 characters was kept and a window discarded.
C14_Witness ==
  /\ cpc = "done"
  /\ \E k \in 1..Len(chunks) : Len(chunks[k].text) = MIN_CHUNK_LEN
  /\ \E i \in 1..Len(windows) :
       /\ WindowChunk(windows[i]) # <<>>
       /\ Len(WindowChunk(windows[i])) < MIN_CHUNK_LEN

\* C15 as stated, for an overlap below the size: every window starts exactly
\* chunk_overlap characters before the end of the window before it.
C15_FixedOverlap ==
  ValidParams =>
    \A i \in 1..(Len(windows) - 1) :
      windows[i + 1][1] = windows[i][2] - chunk_overlap

\* C15, amended: every window starts at min(start + chunk_size -
\* chunk_overlap, end) of the window before it; that is chunk_overlap
\* characters before its end when that window has the full chunk_size, and
\* with an overlap below the size the overlap is between 0 and chunk_overlap.
C15_OverlapAtMost ==
  \A i \in 1..(Len(windows) - 1) :
    /\ windows[i + 1][1] =
         Min(windows[i][1] + chunk_size - chunk_overlap, windows[i][2])
    /\ windows[i][2] - windows[i][1] = chunk_size =>
         windows[i + 1][1] = windows[i][2] - chunk_overlap
    /\ ValidParams =>
         /\ windows[i][2] - windows[i + 1][1] >= 0
         /\ windows[i][2] - windows[i + 1][1] <= chunk_overlap

\* With an overlap configured, two consecutive windows that do not overlap
\* and two that overlap by less than chunk_overlap.
C15_Witness ==
  /\ ValidParams
  /\ chunk_overlap > 0
  /\ cpc = "done"
  /\ \E i \in 1..(Len(windows) - 1) : windows[i + 1][1] = windows[i][2]
  /\ \E i \in 1..(Len(windows) - 1) :
       /\ windows[i + 1][1] < windows[i][2]
       /\ windows[i + 1][1] > windows[i][2] - chunk_overlap

\* C16: in the returned sequence, and during a call with valid sizes, the
\* k-th chunk kept has chunk_id k (from 0), 0 <= start_char < end_char <=
\* len(text), and its text is text[start_char:end_char] stripped.
C16_ChunkRecords ==
  (cpc = "done" \/ ValidParams) =>
    /\ chunk_id = Len(chunks)
    /\ \A k \in 1..Len(chunks) :
         /\ chunks[k].chunk_id = k - 1
         /\ 0 <= chunks[k].start_char
         /\ chunks[k].start_char < chunks[k].end_char
         /\ chunks[k].end_char <= Len(text)
         /\ chunks[k].text =
              strip(SubSeq(text, chunks[k].start_char + 1, chunks[k].end_char))

\* Two chunks returned, a discarded window before the second of them.
C16_Witness ==
  /\ cpc = "done"
  /\ Len(chunks) >= 2
  /\ \E i \in 1..Len(windows) :
       /\ Len(WindowChunk(windows[i])) < MIN_CHUNK_LEN
       /\ windows[i][1] < chunks[Len(chunks)].start_char

\* C27: for 0 <= chunk_overlap < chunk_size the windows leave no gap: the
\* first begins at 0, each next one begins at min(start + chunk_size -
\* chunk_overlap, end) of the one before, which is not beyond that window's
\* end, and the last window examined ends at len(text).
C27_NoGap ==
  ValidParams =>
    /\ windows # <<>> => windows[1][1] = 0
    /\ \A i \in 1..(Len(windows) - 1) :
         /\ windows[i + 1][1] <= windows[i][2]
         /\ windows[i + 1][1] > windows[i][1]
         /\ windows[i + 1][1] <= windows[i][1] + chunk_size - chunk_overlap
         /\ \/ windows[i + 1][1] = windows[i][2]
            \/ windows[i + 1][1] = windows[i][1] + chunk_size - chunk_overlap
    /\ (cpc = "done" /\ windows # <<>>) => windows[Len(windows)][2] = Len(text)
    /\ (cpc = "done" /\ windows = <<>>) => text = <<>>

\* A call returned after a window cut at a line end that the next window
\* begins behind, and the last window ends the text.
C27_Witness ==
  /\ ValidParams
  /\ cpc = "done"
  /\ Len(windows) >= 2
  /\ \E i \in 1..(Len(windows) - 1) :
       /\ windows[i][2] - windows[i][1] < chunk_size - chunk_overlap
       /\ windows[i + 1][1] = windows[i][2]
  /\ windows[Len(windows)][2] = Len(text)

(***************************************************************************)
(* Properties of is_in_scope                                               *)
(***************************************************************************)
\* The question lowercased and trimmed.
Normalized == strip(lower(question))

\* q is a greeting phrase, or one followed by a space or a comma.
GreetingForm(q) ==
  \E g \in 1..Len(greetings) :
    \/ q = greetings[g]
    \/ /\ Len(q) > Len(greetings[g])
       /\ SubSeq(q, 1, Len(greetings[g])) = greetings[g]
       /\ q[Len(greetings[g]) + 1] \in {" ", ","}

\* q contains a domain keyword as a substring.
KeywordInside(q) ==
  \E k \in 1..Len(keywords) : \E i \in 1..Len(q) :
    /\ i + Len(keywords[k]) - 1 <= Len(q)
    /\ \A j \in 1..Len(keywords[k]) : q[i + j - 1] = keywords[k][j]

\* q contains a word that starts with "kerk".
KerkWord(q) ==
  \E i \in 1..Len(q) :
    /\ i + 3 <= Len(q)
    /\ q[i] = "k" /\ q[i + 1] = "e" /\ q[i + 2] = "r" /\ q[i + 3] = "k"
    /\ i > 1 => q[i - 1] \notin WordChars

\* C17: a question whose normalized text is a greeting phrase, or starts with
\* one followed by a space or a comma, is classified Greeting, whatever
\* keyword or "kerk" word it contains; "bonjour" and "Bonjour, parle-moi de
\* Carthage" are Greeting, "j'aime carthage" is InDomain.
C17_GreetingFirst ==
  scope # None =>
    /\ GreetingForm(Normalized) => scope = Greeting
    /\ question = <<"b", "o", "n", "j", "o", "u", "r">> => scope = Greeting
    /\ question = <<"B", "o", "n", "j", "o", "u", "r", ",", " ", "p", "a", "r", "l", "e", "-", "m", "o", "i", " ", "d", "e", " ", "C", "a", "r", "t", "h", "a", "g", "e">>
         => scope = Greeting
    /\ question = <<"j", "'", "a", "i", "m", "e", " ", "c", "a", "r", "t", "h", "a", "g", "e">> => scope = InDomain

\* A question in capitals that greets and names a site was classified.
C17_Witness ==
  /\ scope = Greeting
  /\ question # Normalized
  /\ GreetingForm(Normalized)
  /\ KeywordInside(Normalized) \/ KerkWord(Normalized)

\* C18: every question gets exactly one of the three classes, whatever the
\* state of the object: Greeting for a greeting form; otherwise InDomain if
\* and only if the normalized text contains a keyword or a word starting
\* with "kerk"; otherwise OutOfDomain, the empty and the blank question
\* included.
C18_TotalClassification ==
  scope # None =>
    /\ scope \in {Greeting, InDomain, OutOfDomain}
    /\ scope = Greeting <=> GreetingForm(Normalized)
    /\ scope = InDomain <=>
         /\ ~GreetingForm(Normalized)
         /\ KeywordInside(Normalized) \/ KerkWord(Normalized)
    /\ Normalized = <<>> => scope = OutOfDomain

\* A question with "kerk" inside a word and no keyword was refused.
C18_Witness ==
  /\ scope = OutOfDomain
  /\ contains(Normalized, <<"k", "e", "r", "k">>)
  /\ ~KerkWord(Normalized)

(***************************************************************************)
(* Properties of the ingestion run                                         *)
(***************************************************************************)
\* An ingestion run has ended and none is under way.
RunEnded == ingester = "idle" /\ index.id > 0

\* C19: after a run that ended with an empty chunk set the collection holds
\* the entries it held before the run.
C19_EmptyRunKeepsEntries ==
  (RunEnded /\ run.chunks = 0) => index.count = run.before

\* C20: after each full run the collection exists and holds exactly the
\* chunks of that run, whatever it held before; a second run over the same
\* chunks leaves the count it found.
C20_RunReplacesCollection ==
  RunEnded =>
    /\ index.exists
    /\ index.count = run.chunks
    /\ run.chunks = run.before => index.count = run.before

\* The second run has ended, over as many chunks as the first.
C20_Witness ==
  /\ RunEnded
  /\ index.id = 2
  /\ run.before > 0
  /\ run.chunks = run.before
  /\ index.count = run.chunks

(***************************************************************************)
(* Properties of the query cycle                                           *)
(***************************************************************************)
\* The texts query can return as an answer.
Answers ==
  {GREETING_MSG, OUT_OF_SCOPE_MSG, NO_INFO_MSG, OLLAMA_DOWN_MSG,
   GENERATION_ERROR_MSG, LLM_TEXT}

\* The entries of the index's answer that pass the threshold of the RAGSystem.
Passing == {j \in 1..Len(fetched) :
              Similarity(fetched[j]) >= rag.similarity_threshold}

\* C1: a question classified as a greeting or as out of the domain gets the
\* fixed message of its class with sources = [] and has_sources = false, and
\* the cycle is at its end without any call of the embedding model, the index
\* or the generator.
C1_ShortCircuit ==
  scope \in {Greeting, OutOfDomain} =>
    /\ pc = "done"
    /\ calls = <<>>
    /\ result.answer = (IF scope = Greeting THEN GREETING_MSG ELSE OUT_OF_SCOPE_MSG)
    /\ result.sources = <<>>
    /\ result.has_sources = FALSE

\* An out-of-domain question answered while the RAGSystem holds the handle of
\* a filled collection.
C1_Witness ==
  /\ pc = "done"
  /\ scope = OutOfDomain
  /\ index.exists
  /\ index.count > 0
  /\ rag.collection = <<index.id>>

\* C2: when the retriever returns nothing for a question of the domain, query
\* returns the fixed "no reliable information" message with sources = [] and
\* has_sources = false, and the generator is not called; it is called only
\* with documents.
C2_NoResultsReply ==
  /\ pc = "generate" => docs # <<>>
  /\ (pc = "done" /\ scope = InDomain /\ docs = <<>>) =>
       /\ result.answer = NO_INFO_MSG
       /\ result.sources = <<>>
       /\ result.has_sources = FALSE
       /\ generation = None
       /\ \A i \in 1..Len(calls) : calls[i] \notin {"ollama.list", "ollama.generate"}

\* The index was queried and is empty.
C2_Witness ==
  /\ pc = "done"
  /\ scope = InDomain
  /\ calls = <<"encode", "collection.query">>
  /\ observed = "current"
  /\ fetched = <<>>

\* C3: when retrieval returned at least one result, query returns has_sources
\* = true and the retrieved results, in their order, as sources, whether the
\* generation succeeded or failed; after a failure the answer is an error text
\* and no exception leaves query.
C3_SourcesKeptOnFailure ==
  docs # <<>> =>
    /\ pc \in {"generate", "done"}
    /\ pc = "done" =>
         /\ result.has_sources = TRUE
         /\ result.sources = docs
         /\ generation \in {"ok", "list_failed", "generate_failed"}
         /\ generation = "ok" => result.answer = LLM_TEXT
         /\ generation = "list_failed" => result.answer = OLLAMA_DOWN_MSG
         /\ generation = "generate_failed" => result.answer = GENERATION_ERROR_MSG

\* ollama.generate raised with two documents retrieved.
C3_Witness ==
  /\ pc = "done"
  /\ generation = "generate_failed"
  /\ Len(docs) = 2
  /\ docs[1].idx # docs[2].idx

\* C4: whatever dependency fails, query ends in a terminal state with a
\* natural-language answer; no exception escapes.
C4_NoExceptionEscapes ==
  pc \in {"done", "raised"} =>
    /\ pc = "done"
    /\ result.answer \in Answers

\* C5: a RAGSystem built while the collection does not exist holds no handle;
\* with no handle, search returns [] without a call of the embedding model or
\* the index, and every question of the domain ends in the "no reliable
\* information" reply.
C5_State ==
  (rag.built /\ rag.collection = NoCollection) =>
    /\ pc \in {"idle", "done"}
    /\ calls = <<>>
    /\ docs = <<>>
    /\ (pc = "done" /\ scope = InDomain) =>
         /\ result.answer = NO_INFO_MSG
         /\ result.sources = <<>>
         /\ result.has_sources = FALSE

C5_MissingCollection ==
  [][/\ (~rag.built /\ rag'.built /\ ~index.exists) => rag'.collection = NoCollection
     /\ C5_State']_vars

\* A question of the domain answered by a RAGSystem without handle, after an
\* ingestion run has built the collection.
C5_Witness ==
  /\ rag.built
  /\ rag.collection = NoCollection
  /\ index.exists
  /\ index.count > 0
  /\ pc = "done"
  /\ scope = InDomain

\* C6: a query that finds the collection deleted and not yet recreated is
\* answered as if the index were unavailable, with the "no reliable
\* information" reply and no error.
C6_DeletedIsUnavailable ==
  observed = "absent" =>
    /\ pc = "done"
    /\ result.answer = NO_INFO_MSG
    /\ result.sources = <<>>

\* C7: search never returns more than top_k results.
C7_TopKBound ==
  /\ Len(docs) <= rag.top_k
  /\ pc = "done" => Len(result.sources) <= rag.top_k

\* More entries pass the threshold than top_k allows.
C7_Witness ==
  /\ rag.top_k > 0
  /\ Len(docs) = rag.top_k
  /\ Cardinality(Passing) > rag.top_k

\* C8: for the same answer of the index and the same top_k, a higher
\* similarity_threshold never gives more results, a lower one never fewer.
C8_ThresholdMonotone ==
  \A t \in Thresholds :
    /\ t >= rag.similarity_threshold =>
         Len(ranked(fetched, t, rag.top_k)) <= Len(docs)
    /\ t <= rag.similarity_threshold =>
         Len(ranked(fetched, t, rag.top_k)) >= Len(docs)

\* A higher threshold gives strictly fewer results.
C8_Witness ==
  \E t \in Thresholds :
    /\ t > rag.similarity_threshold
    /\ Len(ranked(fetched, t, rag.top_k)) < Len(docs)
    /\ Len(ranked(fetched, t, rag.top_k)) > 0

\* C9 as stated: the similarity field of every result, the rounded value, is
\* at least similarity_threshold.
C9_ReportedSimilarityAtLeastThreshold ==
  \A i \in 1..Len(docs) : docs[i].similarity >= rag.similarity_threshold

\* C9, amended: every result has an unrounded similarity 1 - distance/2 of at
\* least similarity_threshold, and an entry whose similarity equals the
\* threshold passes the filter; the similarity field is that value rounded to
\* 3 decimals, which is less than the threshold by at most 0.0005, and not
\* less when the threshold is a multiple of 0.001.
C9_UnroundedSimilarityAtLeastThreshold ==
  /\ \A i \in 1..Len(docs) :
       LET similarity == Similarity(fetched[docs[i].idx])
       IN  /\ similarity >= rag.similarity_threshold
           /\ docs[i].similarity = round3(similarity)
           /\ 2 * (rag.similarity_threshold - docs[i].similarity) <= Milli
           /\ rag.similarity_threshold % Milli = 0 =>
                docs[i].similarity >= rag.similarity_threshold
  /\ \A j \in 1..Len(fetched) :
       (Similarity(fetched[j]) = rag.similarity_threshold /\ Len(docs) < rag.top_k) =>
         \E i \in 1..Len(docs) : docs[i].idx = j

\* A result whose similarity equals the threshold and is reported below it.
C9_Witness ==
  \E i \in 1..Len(docs) :
    /\ Similarity(fetched[docs[i].idx]) = rag.similarity_threshold
    /\ docs[i].similarity < rag.similarity_threshold

\* C10: the results are in non-increasing order of the similarity field,
\* results of equal similarity in the order of the index's answer, and they
\* are the top_k best of all fetched entries that pass the threshold: no entry
\* left out ranks before an entry returned.
C10_RankedTopK ==
  /\ \A i, j \in 1..Len(docs) :
       i < j =>
         \/ docs[i].similarity > docs[j].similarity
         \/ /\ docs[i].similarity = docs[j].similarity
            /\ docs[i].idx < docs[j].idx
  /\ \A i \in 1..Len(docs) :
       /\ docs[i].idx \in Passing
       /\ docs[i] = Document(docs[i].idx, fetched[docs[i].idx])
  /\ Len(docs) = Min(rag.top_k, Cardinality(Passing))
  /\ \A j \in Passing :
       (\A i \in 1..Len(docs) : docs[i].idx # j) =>
         \A i \in 1..Len(docs) :
           \/ docs[i].similarity > round3(Similarity(fetched[j]))
           \/ /\ docs[i].similarity = round3(Similarity(fetched[j]))
              /\ docs[i].idx < j

\* The best result comes from behind the first top_k entries of the answer,
\* and an entry left out ties with the last result returned.
C10_Witness ==
  /\ rag.top_k > 0
  /\ Len(docs) = rag.top_k
  /\ docs[1].idx > rag.top_k
  /\ \E j \in Passing :
       /\ \A i \in 1..Len(docs) : docs[i].idx # j
       /\ round3(Similarity(fetched[j])) = docs[Len(docs)].similarity

(***************************************************************************)
(* Further properties of the query cycle                                   *)
(***************************************************************************)
\* How often call c was made in the cycle.
Count(c) == Cardinality({i \in 1..Len(calls) : calls[i] = c})

\* C23: a cycle that reaches Generate has made exactly one embedding call,
\* then exactly one index query, and then calls generate_response once, which
\* probes the generator and asks it to generate at most once; the index is
\* queried only with the question embedded, and generation begins only after
\* retrieval has returned.
C23_CallOrder ==
  /\ pc = "index_query" => calls = <<"encode">>
  /\ pc = "generate" =>
       /\ calls = <<"encode", "collection.query">>
       /\ generation = None
  /\ generation # None =>
       /\ pc = "done"
       /\ Count("encode") = 1
       /\ Count("collection.query") = 1
       /\ Count("ollama.list") = 1
       /\ Count("ollama.generate") <= 1
       /\ SubSeq(calls, 1, 3) = <<"encode", "collection.query", "ollama.list">>
       /\ Len(calls) = 4 => calls[4] = "ollama.generate"
       /\ Len(calls) <= 4
       /\ generation = "ok" => Count("ollama.generate") = 1

\* A cycle ended with a generated answer.
C23_Witness ==
  /\ pc = "done"
  /\ generation = "ok"
  /\ calls = <<"encode", "collection.query", "ollama.list", "ollama.generate">>

\* C26: in every QueryResult returned, has_sources is true if and only if
\* sources is not empty, and the question field is the question passed in,
\* character for character.
C26_ResultContract ==
  pc = "done" =>
    /\ result.has_sources <=> result.sources # <<>>
    /\ result.question = question
    /\ Len(result.question) = Len(question)

\* A question that normalization would change was answered with sources.
C26_Witness ==
  /\ pc = "done"
  /\ question # strip(lower(question))
  /\ result.has_sources
  /\ result.sources # <<>>

\* C29: once a RAGSystem is built, its handle and settings never change; if
\* the collection was absent at construction, every later search returns []
\* without a call of the index and every question of the domain ends in the
\* "no reliable information" reply, whatever ingestion runs have done since.
C29_HandleNeverRefreshed ==
  [][rag.built =>
       /\ rag' = rag
       /\ (rag.collection = NoCollection /\ pc' = "done" /\ scope' = InDomain) =>
            /\ docs' = <<>>
            /\ \A i \in 1..Len(calls') : calls'[i] # "collection.query"
            /\ result' = NoResultsReply(question')]_vars

\* The second ingestion run has filled the collection, and a RAGSystem built
\* before the first still answers without it.
C29_Witness ==
  /\ rag.built
  /\ rag.collection = NoCollection
  /\ index.id = 2
  /\ index.count > 0
  /\ ingester = "idle"
  /\ pc = "done"
  /\ scope = InDomain
  /\ result = NoResultsReply(question)

\* C28: when the index answers nearest first, the entries that pass the
\* threshold are the first m of its answer, and search returns the first
\* min(top_k, m) of them in the order of the index: no entry is returned
\* while a nearer one is left out, and never more than 10.
C28_NearestFirst ==
  (\A i \in 1..(Len(fetched) - 1) : fetched[i] <= fetched[i + 1]) =>
    /\ Len(fetched) <= 10
    /\ Passing = 1..Cardinality(Passing)
    /\ Len(docs) = Min(rag.top_k, Cardinality(Passing))
    /\ \A j \in 1..Len(docs) : docs[j].idx = j
    /\ Len(docs) <= 10

\* top_k is above 10, the collection holds more than 10 entries, all those
\* fetched pass, some at the same distance, and 10 are returned.
C28_Witness ==
  /\ rag.top_k > N_RESULTS
  /\ index.count > N_RESULTS
  /\ Len(docs) = N_RESULTS
  /\ fetched[1] = fetched[2]
  /\ fetched[9] < fetched[10]

(***************************************************************************)
(* Properties of load_documents                                            *)
(***************************************************************************)
\* C22: a file whose reading or metadata extraction fails is skipped and
\* the loop goes on: the documents returned are the files that did not
\* fail, every one of them, in the order of the enumeration.
C22_FailuresSkipped ==
  /\ \A j \in 1..(Len(documents) - 1) : documents[j] < documents[j + 1]
  /\ \A j \in 1..Len(documents) :
       documents[j] <= fpos /\ files[documents[j]] = "ok"
  /\ \A k \in 1..Len(files) :
       (k <= fpos /\ files[k] = "ok") => \E j \in 1..Len(documents) : documents[j] = k
  /\ lpc = "done" => fpos = Len(files)

\* The first file could not be read, the metadata of the second could not be
\* extracted, and a later file was loaded.
C22_Witness ==
  /\ lpc = "done"
  /\ Len(files) >= 3
  /\ files[1] = "read_fails"
  /\ files[2] = "metadata_fails"
  /\ documents # <<>>

(***************************************************************************)
(* Properties of index_documents                                           *)
(***************************************************************************)
\* C21: the identifiers a call of index_documents assigns are none of those
\* an earlier call assigned.
C21_FreshIdentifiers ==
  job.pc = "adding" => ids(job.ts, 0, job.n) \cap issued = {}

\* C24: the add calls of one index_documents take consecutive ranges of at
\* most 50 positions, beginning at 0 and, when the call has returned, ending
\* at n; the four lists of an add call are sliced alike; and a call on an
\* empty collection leaves it with n entries.
C24_Batches ==
  job.pc \in {"idle", "adding"} =>
    /\ \A j \in 1..Len(job.adds) :
         /\ job.adds[j].ids[1] = 50 * (j - 1)
         /\ job.adds[j].ids[2] > job.adds[j].ids[1]
         /\ job.adds[j].ids[2] - job.adds[j].ids[1] <= 50
         /\ job.adds[j].ids[2] <= job.n
         /\ j < Len(job.adds) => job.adds[j + 1].ids[1] = job.adds[j].ids[2]
         /\ job.adds[j].embeddings = job.adds[j].ids
         /\ job.adds[j].documents = job.adds[j].ids
         /\ job.adds[j].metadatas = job.adds[j].ids
    /\ (job.pc = "idle" /\ job.n > 0) => job.adds[Len(job.adds)].ids[2] = job.n
    /\ (job.pc = "idle" /\ job.before = 0) => Cardinality(entries) = job.n

\* A call for 101 chunks on an empty collection has returned after three
\* add calls.
C24_Witness ==
  /\ job.pc = "idle"
  /\ job.n = 101
  /\ job.before = 0
  /\ Len(job.adds) = 3
  /\ Cardinality(entries) = 101

(***************************************************************************)
(* Properties of the site resolution                                       *)
(***************************************************************************)
\* The patterns that match somewhere in the content.
MatchingPatterns == {k \in 1..3 : re_search(content, site_patterns[k]) # <<>>}

\* What the first matching pattern captured, stripped.
CapturedSite ==
  strip(re_search(content,
                  site_patterns[CHOOSE k \in MatchingPatterns :
                                  \A j \in MatchingPatterns : k <= j])[1])

\* The keys of the filename table that lie in the lowercased filename.
FilenameKeys ==
  {k \in 1..Len(sites_map) : contains(lower(filename), sites_map[k][1])}

\* C25: the site is what the first of the patterns Site, Nom, Lieu that
\* matches captured, stripped; when none matches, or what was captured is
\* blank, it is the name under the first key of the filename table that lies
\* in the lowercased filename; otherwise it is null.  A Site line wins over
\* a Lieu line above it, and a blank Site line sends the resolution to the
\* filename, past a Nom line.
C25_SiteCascade ==
  mpc = "done" =>
    /\ (MatchingPatterns # {} /\ CapturedSite # <<>>) => site = <<CapturedSite>>
    /\ (MatchingPatterns = {} \/ CapturedSite = <<>>) =>
         /\ FilenameKeys # {} =>
              \E k \in FilenameKeys :
                /\ \A j \in FilenameKeys : k <= j
                /\ site = <<sites_map[k][2]>>
         /\ FilenameKeys = {} => site = <<>>
    /\ (content = <<"L", "I", "E", "U", ":", "U", "t", "h", "i", "n", "a", "\n", "S", "i", "t", "e", ":", " ", "C", "a", "r", "t", "h", "a", "g", "e">>
          /\ filename = <<"n", "o", "t", "e", "s", ".", "t", "x", "t">>)
         => site = <<<<"C", "a", "r", "t", "h", "a", "g", "e">>>>
    /\ (content = <<" ", " ", "n", "o", "m", " ", "-", " ", "D", "o", "u", "g", "g", "a", " ", " ", "\n", "L", "I", "E", "U", ":", "U", "t", "h", "i", "n", "a">>
          /\ filename = <<"c", "a", "r", "t", "h", "a", "g", "e", ".", "t", "x", "t">>)
         => site = <<<<"D", "o", "u", "g", "g", "a">>>>
    /\ (content = <<"S", "i", "t", "e", ":", " ", " ">>
          /\ filename = <<"n", "o", "t", "e", "s", ".", "t", "x", "t">>)
         => site = <<>>
    /\ (content = <<"S", "i", "t", "e", ":", " ", " ">>
          /\ filename = <<"e", "l", "_", "j", "e", "m", "_", "b", "u", "l", "l", "a", ".", "t", "x", "t">>)
         => site = <<<<"E", "l", " ", "J", "e", "m">>>>
    /\ (content = <<"L", "e", " ", "s", "i", "t", "e", ":", " ", "M", "a", "k", "t", "a", "r">>
          /\ filename = <<"K", "e", "r", "k", "o", "u", "a", "n", "e", "_", "s", "i", "t", "e", ".", "t", "x", "t">>)
         => site = <<<<"K", "e", "r", "k", "o", "u", "a", "n", "e">>>>
    /\ (content = <<" ", " ", "n", "o", "m", " ", "-", " ", "D", "o", "u", "g", "g", "a", " ", " ", "\n", "S", "i", "t", "e", ":", " ", " ">>
          /\ filename = <<"n", "o", "t", "e", "s", ".", "t", "x", "t">>)
         => site = <<>>
    /\ (content = <<"N", "o", "m", ":">>
          /\ filename = <<"k", "e", "r", "k", ".", "t", "x", "t">>)
         => site = <<<<"K", "e", "r", "k", "o", "u", "a", "n", "e">>>>

\* A blank Site line under a Nom line, in a file whose name has two keys of
\* the table: the site is that of the first key.
C25_Witness ==
  /\ mpc = "done"
  /\ Cardinality(MatchingPatterns) = 2
  /\ CapturedSite = <<>>
  /\ Cardinality(FilenameKeys) = 2
  /\ site = <<<<"E", "l", " ", "J", "e", "m">>>>

(***************************************************************************)
(* Properties of the chat session                                          *)
(***************************************************************************)
\* The messages of sess are a user message and an assistant message for
\* each counted question, in turns.
Paired(sess) ==
  /\ Len(sess.messages) = 2 * sess.query_count
  /\ \A i \in 1..Len(sess.messages) :
       sess.messages[i].role = (IF i % 2 = 1 THEN "user" ELSE "assistant")

\* C30: between turns, when no turn since the last clear was cut short by an
\* exception, there are two messages for each counted question, user and
\* assistant in turns; a clear leaves no message and a counter of 0; a turn
\* in which rag.query raises leaves its user message last, without a reply.
C30_Session ==
  [][/\ (turn' = "idle" /\ aborted' = 0) => Paired(session')
     /\ (turn = "idle" /\ turn' = "idle") =>
          /\ session'.messages = <<>>
          /\ session'.query_count = 0
     /\ aborted' > aborted =>
          /\ session'.messages[Len(session'.messages)].role = "user"
          /\ Len(session'.messages) < 2 * session'.query_count]_vars

\* Two different questions answered, no turn cut short since the last clear.
C30_Witness ==
  /\ turn = "idle"
  /\ aborted = 0
  /\ session.query_count = 2
  /\ Len(session.messages) = 4
  /\ session.messages[1].content # session.messages[3].content

=============================================================================
